---------------------------- MODULE Spec2Model ----------------------------
(***************************************************************************)
(* Model of the terminal calculator of src/src/main.rs: the App struct,    *)
(* its commands (handle_digit, handle_decimal_point, handle_backspace,     *)
(* set_operator, evaluate, all_clear), the key dispatcher                  *)
(* handle_key_events and the reduction evaluate_tokens.                    *)
(*                                                                         *)
(* Text (Rust String) is a sequence of one-character strings.              *)
(*                                                                         *)
(* An f64 is modelled by the number it holds, in sign-magnitude form       *)
(* [neg, num, den] with num/den in lowest terms, so that the negative      *)
(* zero of IEEE 754 is a value of its own.  The arithmetic is exact, and   *)
(* the bounds keep the model where f64 arithmetic is exact too: under Spec *)
(* and SpecKeys every operand is an integer of at most two characters and  *)
(* a result is kept when it renders to at most MaxResultLen characters (a  *)
(* quotient with a fraction renders to more), under SpecEval every         *)
(* operand is a small multiple of a power of two.  Values stay far from    *)
(* the range where an f64 overflows, so that the texts "inf"               *)
(* and "NaN" do not occur.                                                 *)
(*                                                                         *)
(* SpecResult applies the engine commands to the expressions of SpecEval   *)
(* and to their results, which hold a decimal point.  SpecTokens and       *)
(* SpecReduce follow evaluate_tokens step by step, on any short sequence   *)
(* of tokens and on the expressions of SpecEval.                           *)
(***************************************************************************)
EXTENDS Integers, Sequences, FiniteSets, TLC

----------------------------------------------------------------------------
(* Bounds of the model *)

\* longest text that is typed into `input` (digits and the decimal point)
MaxInputLen == 2

\* longest formatted result that evaluate stores in `input`
MaxResultLen == 2

\* most characters of an expression that is typed: the digits and decimal
\* points of its operands and one character for each operator
MaxExprLen == 5

\* the digit keys that are pressed
Digits == {"0", "2"}

\* most operands of an expression handed to evaluate as a whole
MaxEvalOperands == 4

\* the operands of those expressions: f64 arithmetic is exact on them
EvalOperands == {<<"0">>, <<"4">>, <<"0", ".", "5">>}

----------------------------------------------------------------------------
(* Text *)

DigitChars == <<"0", "1", "2", "3", "4", "5", "6", "7", "8", "9">>

IsDigit(c) == \E i \in 1..10 : DigitChars[i] = c

DigitValue(c) == (CHOOSE i \in 1..10 : DigitChars[i] = c) - 1

DigitChar(n) == DigitChars[n + 1]

Contains(text, c) == \E i \in 1..Len(text) : text[i] = c

EndsWith(text, c) == Len(text) > 0 /\ text[Len(text)] = c

\* String::pop
Pop(text) == IF Len(text) = 0 THEN text ELSE SubSeq(text, 1, Len(text) - 1)

RECURSIVE CountChar(_, _)
CountChar(text, c) ==
    IF Len(text) = 0 THEN 0
    ELSE (IF text[1] = c THEN 1 ELSE 0) + CountChar(Tail(text), c)

----------------------------------------------------------------------------
(* f64 values *)

RECURSIVE GCD(_, _)
GCD(a, b) == IF b = 0 THEN a ELSE GCD(b, a % b)

RECURSIVE Pow10(_)
Pow10(k) == IF k = 0 THEN 1 ELSE 10 * Pow10(k - 1)

\* the value num/den with the given sign, in lowest terms
MkValue(neg, num, den) ==
    LET g == GCD(num, den)
    IN  [neg |-> neg, num |-> num \div g, den |-> den \div g]

Zero == [neg |-> FALSE, num |-> 0, den |-> 1]

\* signed numerator
Signed(v) == IF v.neg THEN 0 - v.num ELSE v.num

Abs(n) == IF n < 0 THEN 0 - n ELSE n

\* lhs + rhs; an exact zero sum is -0 only when both operands are -0
FAdd(x, y) ==
    LET n == Signed(x) * y.den + Signed(y) * x.den
    IN  IF n = 0 THEN MkValue(x.neg /\ y.neg, 0, 1)
        ELSE MkValue(n < 0, Abs(n), x.den * y.den)

FNeg(x) == [x EXCEPT !.neg = ~x.neg]

FSub(x, y) == FAdd(x, FNeg(y))

FMul(x, y) == MkValue(x.neg # y.neg, x.num * y.num, x.den * y.den)

\* lhs / rhs for rhs # 0
FDiv(x, y) == MkValue(x.neg # y.neg, x.num * y.den, x.den * y.num)

\* f64::EPSILON is 2^-52; EpsilonHalfExp is half that exponent, so that
\* 2^EpsilonHalfExp is a number TLC can hold
EpsilonHalfExp == 26

RECURSIVE Pow2(_)
Pow2(k) == IF k = 0 THEN 1 ELSE 2 * Pow2(k - 1)

\* rhs.abs() < f64::EPSILON
BelowEpsilon(v) ==
    \/ v.num = 0
    \/ ((v.den \div v.num) \div Pow2(EpsilonHalfExp)) >= Pow2(EpsilonHalfExp)
       /\ v.num * Pow2(EpsilonHalfExp) * Pow2(EpsilonHalfExp) < v.den

----------------------------------------------------------------------------
(* str::parse::<f64> over the characters the calculator produces *)

RECURSIVE DigitsValue(_)
DigitsValue(ds) ==
    IF Len(ds) = 0 THEN 0
    ELSE DigitsValue(Pop(ds)) * 10 + DigitValue(ds[Len(ds)])

\* the text without every occurrence of c
RECURSIVE Without(_, _)
Without(text, c) ==
    IF Len(text) = 0 THEN <<>>
    ELSE (IF text[1] = c THEN <<>> ELSE <<text[1]>>) \o Without(Tail(text), c)

\* number of characters after the first '.'
RECURSIVE FracLen(_)
FracLen(text) ==
    IF Len(text) = 0 THEN 0
    ELSE IF text[1] = "." THEN Len(text) - 1
    ELSE FracLen(Tail(text))

Unsigned(text) == IF Len(text) > 0 /\ text[1] = "-" THEN Tail(text) ELSE text

\* Ok(_) of parse::<f64>: an optional sign, then digits with at most one
\* '.', at least one digit in all
ParseOk(text) ==
    LET body == Unsigned(text)
    IN  /\ \A i \in 1..Len(body) : IsDigit(body[i]) \/ body[i] = "."
        /\ CountChar(body, ".") <= 1
        /\ \E i \in 1..Len(body) : IsDigit(body[i])

\* the value of a text for which ParseOk holds
ParseValue(text) ==
    LET body == Unsigned(text)
    IN  MkValue(Len(text) > 0 /\ text[1] = "-",
                DigitsValue(Without(body, ".")),
                Pow10(FracLen(body)))

----------------------------------------------------------------------------
(* format!("{}", value): the decimal rendering of an f64 *)

RECURSIVE NatDigits(_)
NatDigits(n) ==
    IF n < 10 THEN <<DigitChar(n)>>
    ELSE NatDigits(n \div 10) \o <<DigitChar(n % 10)>>

\* digits of r/den after the decimal point, at most k of them
RECURSIVE FracDigits(_, _, _)
FracDigits(r, den, k) ==
    IF r = 0 \/ k = 0 THEN <<>>
    ELSE <<DigitChar((r * 10) \div den)>> \o FracDigits((r * 10) % den, den, k - 1)

\* an f64 is rendered with at most 17 significant digits
DisplayDigits == 17

Display(v) ==
    LET ip == v.num \div v.den
        r  == v.num % v.den
    IN  (IF v.neg THEN <<"-">> ELSE <<>>)
        \o NatDigits(ip)
        \o (IF r = 0 THEN <<>> ELSE <<".">> \o FracDigits(r, v.den, DisplayDigits))

RECURSIVE StripTrailingZeros(_)
StripTrailingZeros(text) ==
    IF EndsWith(text, "0") THEN StripTrailingZeros(Pop(text)) ELSE text

format_number(value) ==
    LET output   == Display(value)
        stripped == IF Contains(output, ".")
                    THEN LET z == StripTrailingZeros(output)
                         IN  IF EndsWith(z, ".") THEN Pop(z) ELSE z
                    ELSE output
    IN  IF Len(stripped) = 0 THEN <<"0">> ELSE stripped


----------------------------------------------------------------------------
(* Token, Operator and the App struct *)

Operators == {"Add", "Subtract", "Multiply", "Divide"}

Number(text) == [kind |-> "Number", text |-> text]

Operator(op) == [kind |-> "Operator", op |-> op]

IsNumber(token) == token.kind = "Number"

IsOperator(token) == token.kind = "Operator"

\* Option::None of error_message
None == "None"

\* App::default()
App_default ==
    [input |-> <<>>, tokens |-> <<>>, just_evaluated |-> FALSE,
     error_message |-> None, exit |-> FALSE]

----------------------------------------------------------------------------
(* The commands of the engine, each a function from the App before the     *)
(* call to the App after it                                                *)

\* all_clear without `self.error_message = None`
all_clear_keeps_error(self) ==
    [self EXCEPT !.input = <<>>, !.tokens = <<>>, !.just_evaluated = FALSE]

\* all_clear without `self.just_evaluated = false`
all_clear_keeps_flag(self) ==
    [self EXCEPT !.input = <<>>, !.tokens = <<>>, !.error_message = None]

all_clear(self) ==
    [self EXCEPT !.input = <<>>, !.tokens = <<>>,
                 !.error_message = None, !.just_evaluated = FALSE]

\* handle_digit without the test `self.input == "0"`
handle_digit_keeps_zero(self, digit) ==
    LET s1 == IF self.just_evaluated
              THEN [self EXCEPT !.input = <<>>, !.just_evaluated = FALSE]
              ELSE self
    IN  [s1 EXCEPT !.input = Append(s1.input, digit)]

\* handle_digit without `self.input.clear()` after an evaluation
handle_digit_appends(self, digit) ==
    LET s1 == IF self.just_evaluated
              THEN [self EXCEPT !.just_evaluated = FALSE]
              ELSE self
        s2 == IF s1.input = <<"0">> THEN [s1 EXCEPT !.input = <<>>] ELSE s1
    IN  [s2 EXCEPT !.input = Append(s2.input, digit)]

handle_digit(self, digit) ==
    LET s1 == IF self.just_evaluated
              THEN [self EXCEPT !.input = <<>>, !.just_evaluated = FALSE]
              ELSE self
        s2 == IF s1.input = <<"0">> THEN [s1 EXCEPT !.input = <<>>] ELSE s1
    IN  [s2 EXCEPT !.input = Append(s2.input, digit)]

\* handle_decimal_point without `self.input.push('0')` on an empty input
handle_decimal_point_bare(self) ==
    LET s1 == IF self.just_evaluated
              THEN [self EXCEPT !.input = <<>>, !.just_evaluated = FALSE]
              ELSE self
    IN  IF ~Contains(s1.input, ".")
        THEN [s1 EXCEPT !.input = Append(s1.input, ".")]
        ELSE s1

\* handle_decimal_point without the test `!self.input.contains('.')`
handle_decimal_point_repeats(self) ==
    LET s1 == IF self.just_evaluated
              THEN [self EXCEPT !.input = <<>>, !.just_evaluated = FALSE]
              ELSE self
        s2 == IF Len(s1.input) = 0 THEN [s1 EXCEPT !.input = <<"0">>] ELSE s1
    IN  [s2 EXCEPT !.input = Append(s2.input, ".")]

handle_decimal_point(self) ==
    LET s1 == IF self.just_evaluated
              THEN [self EXCEPT !.input = <<>>, !.just_evaluated = FALSE]
              ELSE self
        s2 == IF Len(s1.input) = 0 THEN [s1 EXCEPT !.input = <<"0">>] ELSE s1
    IN  IF ~Contains(s2.input, ".")
        THEN [s2 EXCEPT !.input = Append(s2.input, ".")]
        ELSE s2

\* handle_backspace without the test of just_evaluated
handle_backspace_ignores_flag(self) ==
    IF Len(self.input) = 0 THEN self
    ELSE [self EXCEPT !.input = Pop(self.input)]

handle_backspace(self) ==
    IF self.just_evaluated \/ Len(self.input) = 0 THEN self
    ELSE [self EXCEPT !.input = Pop(self.input)]

\* set_error without `self.tokens.clear()`
set_error_keeps_tokens(self, message) ==
    [self EXCEPT !.error_message = "Error " \o message,
                 !.input = <<>>, !.just_evaluated = FALSE]

set_error(self, message) ==
    [self EXCEPT !.error_message = "Error " \o message,
                 !.input = <<>>, !.tokens = <<>>, !.just_evaluated = FALSE]

\* the returned bool and the App after the call
try_commit_input(self) ==
    IF Len(self.input) = 0 THEN [ok |-> TRUE, app |-> self]
    ELSE IF ParseOk(self.input)
    THEN [ok  |-> TRUE,
          app |-> [self EXCEPT !.tokens = Append(self.tokens, Number(self.input)),
                               !.input = <<>>, !.just_evaluated = FALSE]]
    ELSE [ok |-> FALSE, app |-> set_error(self, "invalid number")]

\* set_operator that always pushes the operator
set_operator_always_pushes(self, operator) ==
    LET c == try_commit_input(self)
        s == c.app
    IN  IF ~c.ok THEN s
        ELSE IF Len(s.tokens) = 0 THEN s
        ELSE [s EXCEPT !.tokens = Append(s.tokens, Operator(operator)),
                       !.just_evaluated = FALSE]

\* set_operator without the early return on empty tokens
set_operator_leading(self, operator) ==
    LET c == try_commit_input(self)
        s == c.app
        n == Len(s.tokens)
    IN  IF ~c.ok THEN s
        ELSE IF n > 0 /\ IsOperator(s.tokens[n])
        THEN [s EXCEPT !.tokens = [s.tokens EXCEPT ![n] = Operator(operator)],
                       !.just_evaluated = FALSE]
        ELSE [s EXCEPT !.tokens = Append(s.tokens, Operator(operator)),
                       !.just_evaluated = FALSE]

set_operator(self, operator) ==
    LET c == try_commit_input(self)
        s == c.app
        n == Len(s.tokens)
    IN  IF ~c.ok THEN s
        ELSE IF n = 0 THEN s
        ELSE IF IsOperator(s.tokens[n])
        THEN [s EXCEPT !.tokens = [s.tokens EXCEPT ![n] = Operator(operator)],
                       !.just_evaluated = FALSE]
        ELSE [s EXCEPT !.tokens = Append(s.tokens, Operator(operator)),
                       !.just_evaluated = FALSE]

----------------------------------------------------------------------------
(* The reduction.  A Result is [kind, val, msg] with kind "Ok" (val is the *)
(* value), "Err" (msg is the message) or "Panic" (an index out of range).  *)

Ok(val) == [kind |-> "Ok", val |-> val, msg |-> None]

Err(msg) == [kind |-> "Err", val |-> Zero, msg |-> msg]

Panic == [kind |-> "Panic", val |-> Zero, msg |-> None]

apply_operator(lhs, rhs, operator) ==
    CASE operator = "Add"      -> Ok(FAdd(lhs, rhs))
      [] operator = "Subtract" -> Ok(FSub(lhs, rhs))
      [] operator = "Multiply" -> Ok(FMul(lhs, rhs))
      [] operator = "Divide"   ->
            IF BelowEpsilon(rhs) THEN Err("Cannot divide by zero")
            ELSE Ok(FDiv(lhs, rhs))

\* Vec::remove(i), i counted from 1
Remove(seq, i) == SubSeq(seq, 1, i - 1) \o SubSeq(seq, i + 1, Len(seq))

\* the for loop over the tokens, from token i on: the values and operators
\* collected, or the message of the early return
RECURSIVE CollectTokens(_, _, _, _, _)
CollectTokens(tokens, i, values, operators, expect_number) ==
    IF i > Len(tokens)
    THEN [msg |-> None, values |-> values, operators |-> operators]
    ELSE IF IsNumber(tokens[i])
    THEN IF ~expect_number
         THEN [msg |-> "invalid expression", values |-> values, operators |-> operators]
         ELSE IF ~ParseOk(tokens[i].text)
         THEN [msg |-> "invalid number in expression",
               values |-> values, operators |-> operators]
         ELSE CollectTokens(tokens, i + 1,
                            Append(values, ParseValue(tokens[i].text)),
                            operators, FALSE)
    ELSE IF expect_number
         THEN [msg |-> "incomplete expression", values |-> values, operators |-> operators]
         ELSE CollectTokens(tokens, i + 1, values,
                            Append(operators, tokens[i].op), TRUE)

\* the while loop with the result stored in values[idx + 1], the element
\* that values.remove(idx + 1) then removes
RECURSIVE HighPrecedencePass_drops_result(_, _, _)
HighPrecedencePass_drops_result(values, operators, idx) ==
    IF ~(idx < Len(operators))
    THEN [kind |-> "Ok", msg |-> None, values |-> values, operators |-> operators]
    ELSE IF operators[idx + 1] \in {"Multiply", "Divide"}
    THEN IF idx + 1 >= Len(values)
         THEN [kind |-> "Panic", msg |-> None, values |-> values, operators |-> operators]
         ELSE LET result == apply_operator(values[idx + 1], values[idx + 2],
                                           operators[idx + 1])
              IN  IF result.kind = "Err"
                  THEN [kind |-> "Err", msg |-> result.msg,
                        values |-> values, operators |-> operators]
                  ELSE HighPrecedencePass_drops_result(
                           Remove([values EXCEPT ![idx + 2] = result.val], idx + 2),
                           Remove(operators, idx + 1), idx)
    ELSE HighPrecedencePass_drops_result(values, operators, idx + 1)

\* the while loop with idx advanced after a Multiply or Divide is applied
RECURSIVE HighPrecedencePass_advances(_, _, _)
HighPrecedencePass_advances(values, operators, idx) ==
    IF ~(idx < Len(operators))
    THEN [kind |-> "Ok", msg |-> None, values |-> values, operators |-> operators]
    ELSE IF operators[idx + 1] \in {"Multiply", "Divide"}
    THEN IF idx + 1 >= Len(values)
         THEN [kind |-> "Panic", msg |-> None, values |-> values, operators |-> operators]
         ELSE LET result == apply_operator(values[idx + 1], values[idx + 2],
                                           operators[idx + 1])
              IN  IF result.kind = "Err"
                  THEN [kind |-> "Err", msg |-> result.msg,
                        values |-> values, operators |-> operators]
                  ELSE HighPrecedencePass_advances(
                           Remove([values EXCEPT ![idx + 1] = result.val], idx + 2),
                           Remove(operators, idx + 1), idx + 1)
    ELSE HighPrecedencePass_advances(values, operators, idx + 1)

\* the while loop: idx counts from 0 as in the code.  The outcome is a
\* Result whose val is unused, with the values and operators left.
RECURSIVE HighPrecedencePass(_, _, _)
HighPrecedencePass(values, operators, idx) ==
    IF ~(idx < Len(operators))
    THEN [kind |-> "Ok", msg |-> None, values |-> values, operators |-> operators]
    ELSE IF operators[idx + 1] \in {"Multiply", "Divide"}
    THEN IF idx + 1 >= Len(values)
         THEN [kind |-> "Panic", msg |-> None, values |-> values, operators |-> operators]
         ELSE LET result == apply_operator(values[idx + 1], values[idx + 2],
                                           operators[idx + 1])
              IN  IF result.kind = "Err"
                  THEN [kind |-> "Err", msg |-> result.msg,
                        values |-> values, operators |-> operators]
                  ELSE HighPrecedencePass(
                           Remove([values EXCEPT ![idx + 1] = result.val], idx + 2),
                           Remove(operators, idx + 1), idx)
    ELSE HighPrecedencePass(values, operators, idx + 1)

\* the for loop over operators zipped with values.skip(1), from pair i on
RECURSIVE LowPrecedenceFold(_, _, _, _)
LowPrecedenceFold(result, values, operators, i) ==
    IF i > Len(operators) \/ i + 1 > Len(values) THEN Ok(result)
    ELSE LET r == apply_operator(result, values[i + 1], operators[i])
         IN  IF r.kind = "Err" THEN r
             ELSE LowPrecedenceFold(r.val, values, operators, i + 1)

evaluate_tokens(tokens) ==
    LET c == CollectTokens(tokens, 1, <<>>, <<>>, TRUE)
    IN  IF c.msg # None THEN Err(c.msg)
        ELSE IF Len(c.values) = 0 THEN Err("incomplete expression")
        ELSE LET h == HighPrecedencePass(c.values, c.operators, 0)
             IN  IF h.kind = "Err" THEN Err(h.msg)
                 ELSE IF h.kind = "Panic" THEN Panic
                 ELSE LowPrecedenceFold(h.values[1], h.values, h.operators, 1)

\* The locals of evaluate_tokens between two steps: pc is "none" before
\* the call, "while" at the test of the while loop, "fold" after the loop,
\* "returned" after the return and "panicked" after an index out of range;
\* iterations counts the passes through the body of the while loop.
NoResult == [kind |-> "None", val |-> Zero, msg |-> None]

NoFrame ==
    [pc |-> "none", values |-> <<>>, operators |-> <<>>, idx |-> 0,
     iterations |-> 0, result |-> NoResult]

Returned(f, result) == [f EXCEPT !.pc = "returned", !.result = result]

\* the for loop over the tokens and the test of values.is_empty()
EnterFrame(tokens) ==
    LET c == CollectTokens(tokens, 1, <<>>, <<>>, TRUE)
    IN  IF c.msg # None THEN Returned(NoFrame, Err(c.msg))
        ELSE IF Len(c.values) = 0 THEN Returned(NoFrame, Err("incomplete expression"))
        ELSE [NoFrame EXCEPT !.pc = "while", !.values = c.values,
                             !.operators = c.operators]

\* the body of the while loop without `values.remove(idx + 1)`
HighPrecedenceStep_keeps_rhs(f) ==
    LET idx == f.idx
        g   == [f EXCEPT !.iterations = f.iterations + 1]
    IN  IF f.operators[idx + 1] \in {"Multiply", "Divide"}
        THEN IF idx + 1 >= Len(f.values) THEN [f EXCEPT !.pc = "panicked"]
             ELSE LET result == apply_operator(f.values[idx + 1], f.values[idx + 2],
                                               f.operators[idx + 1])
                  IN  IF result.kind = "Err" THEN Returned(g, result)
                      ELSE [g EXCEPT
                               !.values = [f.values EXCEPT ![idx + 1] = result.val],
                               !.operators = Remove(f.operators, idx + 1)]
        ELSE [g EXCEPT !.idx = idx + 1]

\* one pass through the body of the while loop, entered with
\* idx < operators.len()
HighPrecedenceStep(f) ==
    LET idx == f.idx
        g   == [f EXCEPT !.iterations = f.iterations + 1]
    IN  IF f.operators[idx + 1] \in {"Multiply", "Divide"}
        THEN IF idx + 1 >= Len(f.values) THEN [f EXCEPT !.pc = "panicked"]
             ELSE LET result == apply_operator(f.values[idx + 1], f.values[idx + 2],
                                               f.operators[idx + 1])
                  IN  IF result.kind = "Err" THEN Returned(g, result)
                      ELSE [g EXCEPT
                               !.values = Remove([f.values EXCEPT ![idx + 1] = result.val],
                                                 idx + 2),
                               !.operators = Remove(f.operators, idx + 1)]
        ELSE [g EXCEPT !.idx = idx + 1]

\* `let mut result = values[0]` and the for loop after the while loop
FoldFrame(f) ==
    Returned(f, LowPrecedenceFold(f.values[1], f.values, f.operators, 1))

\* evaluate reaches evaluate_tokens: the commit succeeds and leaves a
\* non-empty token sequence that does not end with an operator
ReachesReduction(self) ==
    LET c == try_commit_input(self)
    IN  /\ c.ok
        /\ Len(c.app.tokens) > 0
        /\ ~IsOperator(c.app.tokens[Len(c.app.tokens)])

\* evaluate without `self.tokens.clear()` after a value is returned
evaluate_keeps_tokens(self) ==
    LET c == try_commit_input(self)
        s == c.app
    IN  IF ~ReachesReduction(self) THEN s
        ELSE LET r == evaluate_tokens(s.tokens)
             IN  IF r.kind = "Ok"
                 THEN [s EXCEPT !.input = format_number(r.val),
                                !.just_evaluated = TRUE]
                 ELSE set_error(s, r.msg)

\* evaluate that returns early on fewer than two tokens instead of none
evaluate_skips_single(self) ==
    LET c == try_commit_input(self)
        s == c.app
    IN  IF ~ReachesReduction(self) \/ Len(s.tokens) < 2 THEN s
        ELSE LET r == evaluate_tokens(s.tokens)
             IN  IF r.kind = "Ok"
                 THEN [s EXCEPT !.input = format_number(r.val),
                                !.tokens = <<>>, !.just_evaluated = TRUE]
                 ELSE set_error(s, r.msg)

\* evaluate without the early return on a trailing operator
evaluate_no_trailing_check(self) ==
    LET c == try_commit_input(self)
        s == c.app
    IN  IF ~c.ok \/ Len(s.tokens) = 0 THEN s
        ELSE LET r == evaluate_tokens(s.tokens)
             IN  IF r.kind = "Ok"
                 THEN [s EXCEPT !.input = format_number(r.val),
                                !.tokens = <<>>, !.just_evaluated = TRUE]
                 ELSE set_error(s, r.msg)

\* evaluate that stores the message of a failure without set_error
evaluate_keeps_partial(self) ==
    LET c == try_commit_input(self)
        s == c.app
    IN  IF ~ReachesReduction(self) THEN s
        ELSE LET r == evaluate_tokens(s.tokens)
             IN  IF r.kind = "Ok"
                 THEN [s EXCEPT !.input = format_number(r.val),
                                !.tokens = <<>>, !.just_evaluated = TRUE]
                 ELSE [s EXCEPT !.error_message = "Error " \o r.msg]

\* the App after evaluate returns
evaluate(self) ==
    LET c == try_commit_input(self)
        s == c.app
    IN  IF ~ReachesReduction(self) THEN s
        ELSE LET r == evaluate_tokens(s.tokens)
             IN  IF r.kind = "Ok"
                 THEN [s EXCEPT !.input = format_number(r.val),
                                !.tokens = <<>>, !.just_evaluated = TRUE]
                 ELSE set_error(s, r.msg)

\* evaluate does not return: evaluate_tokens indexes out of range
EvaluatePanics(self) ==
    /\ ReachesReduction(self)
    /\ evaluate_tokens(try_commit_input(self).app.tokens).kind = "Panic"


----------------------------------------------------------------------------
(* handle_key_events *)

OperatorKeys == {"+", "-", "*", "x", "X", "/", ":"}

KeyOperator(key) ==
    CASE key = "+" -> "Add"
      [] key = "-" -> "Subtract"
      [] key \in {"*", "x", "X"} -> "Multiply"
      [] key \in {"/", ":"} -> "Divide"

\* the key codes that are pressed; "z" stands for every key without a binding
Keys == {"q", "a", "A", "Enter", "=", ".", "Backspace", "z"}
            \cup OperatorKeys \cup Digits

\* handle_key_events without the branch on `self.error_message.is_some()`
handle_key_events_unlocked(self, key) ==
    CASE key = "q" -> [self EXCEPT !.exit = TRUE]
      [] key \in {"a", "A"} -> all_clear(self)
      [] key \in {"Enter", "="} -> evaluate(self)
      [] key \in OperatorKeys -> set_operator(self, KeyOperator(key))
      [] key = "." -> handle_decimal_point(self)
      [] key = "Backspace" -> handle_backspace(self)
      [] IsDigit(key) -> handle_digit(self, key)
      [] OTHER -> self

handle_key_events(self, key) ==
    IF self.error_message # None
    THEN CASE key \in {"a", "A"} -> all_clear(self)
           [] key = "q" -> [self EXCEPT !.exit = TRUE]
           [] OTHER -> self
    ELSE CASE key = "q" -> [self EXCEPT !.exit = TRUE]
           [] key \in {"a", "A"} -> all_clear(self)
           [] key \in {"Enter", "="} -> evaluate(self)
           [] key \in OperatorKeys -> set_operator(self, KeyOperator(key))
           [] key = "." -> handle_decimal_point(self)
           [] key = "Backspace" -> handle_backspace(self)
           [] IsDigit(key) -> handle_digit(self, key)
           [] OTHER -> self

\* the command the key is dispatched to; "none" for a key that is ignored,
\* "quit" for the key that sets exit
KeyCommand(self, key) ==
    CASE key = "q" -> "quit"
      [] key \in {"a", "A"} -> "all_clear"
      [] self.error_message # None -> "none"
      [] key \in {"Enter", "="} -> "evaluate"
      [] key \in OperatorKeys -> "set_operator"
      [] key = "." -> "handle_decimal_point"
      [] key = "Backspace" -> "handle_backspace"
      [] IsDigit(key) -> "handle_digit"
      [] OTHER -> "none"

\* the key reaches evaluate and evaluate does not return
KeyPanics(self, key) ==
    self.error_message = None /\ key \in {"Enter", "="} /\ EvaluatePanics(self)

----------------------------------------------------------------------------
(* The state machine *)

VARIABLES
    app,        \* the App
    prev,       \* the App before the last command
    last,       \* the last command and its argument
    panicked,   \* the process has panicked
    frame       \* the locals of a call of evaluate_tokens that is followed
                \* step by step

vars == <<app, prev, last, panicked, frame>>

NoArg == "-"

Init ==
    /\ app = App_default
    /\ prev = App_default
    /\ last = [cmd |-> "default", arg |-> NoArg]
    /\ panicked = FALSE
    /\ frame = NoFrame

\* the characters of the expression held as tokens and input
RECURSIVE TokensLen(_)
TokensLen(tokens) ==
    IF Len(tokens) = 0 THEN 0
    ELSE (IF IsNumber(tokens[1]) THEN Len(tokens[1].text) ELSE 1)
            + TokensLen(Tail(tokens))

ExprLen(a) == TokensLen(a.tokens) + Len(a.input)

\* the text that was typed into input: a result is not typed
Typed(a) == IF a.just_evaluated THEN <<>> ELSE a.input

\* The part of the state space that is explored.  A digit is typed while
\* input stays within MaxInputLen and the expression within MaxExprLen; a
\* decimal point is pressed where the typed text already holds one or
\* where there is that room for it (and for the "0" put before it in an
\* empty input); an operator is pressed while the expression leaves room
\* for it and for one more character; a result is kept when it is no longer
\* than MaxResultLen.
InBounds(cmd, before, after) ==
    CASE cmd = "handle_digit" ->
            /\ Len(after.input) <= MaxInputLen
            /\ TokensLen(before.tokens) + Len(after.input) <= MaxExprLen
      [] cmd = "handle_decimal_point" ->
            LET room == IF Len(Typed(before)) = 0 THEN 2
                        ELSE Len(Typed(before)) + 1
            IN  \/ Contains(Typed(before), ".")
                \/ /\ room <= MaxInputLen
                   /\ TokensLen(before.tokens) + room <= MaxExprLen
      [] cmd = "set_operator" ->
            \/ Len(before.input) = 0 /\ Len(before.tokens) > 0
                  /\ IsOperator(before.tokens[Len(before.tokens)])
            \/ ExprLen(before) + 1 < MaxExprLen
      [] cmd = "evaluate" ->
            after.just_evaluated => Len(after.input) <= MaxResultLen
      [] OTHER -> TRUE

\* a command that returns, leaving the App as `after`
Return(cmd, arg, after) ==
    /\ ~panicked
    /\ app' = after
    /\ prev' = app
    /\ last' = [cmd |-> cmd, arg |-> arg]
    /\ UNCHANGED <<panicked, frame>>

\* a command that panics
Abort(cmd, arg) ==
    /\ ~panicked
    /\ panicked' = TRUE
    /\ prev' = app
    /\ last' = [cmd |-> cmd, arg |-> arg]
    /\ UNCHANGED <<app, frame>>

HandleDigit ==
    \E digit \in Digits :
        /\ InBounds("handle_digit", app, handle_digit(app, digit))
        /\ Return("handle_digit", digit, handle_digit(app, digit))

HandleDecimalPoint ==
    /\ InBounds("handle_decimal_point", app, handle_decimal_point(app))
    /\ Return("handle_decimal_point", NoArg, handle_decimal_point(app))

HandleBackspace ==
    /\ InBounds("handle_backspace", app, handle_backspace(app))
    /\ Return("handle_backspace", NoArg, handle_backspace(app))

SetOperator ==
    \E operator \in Operators :
        /\ InBounds("set_operator", app, set_operator(app, operator))
        /\ Return("set_operator", operator, set_operator(app, operator))

Evaluate ==
    IF EvaluatePanics(app) THEN Abort("evaluate", NoArg)
    ELSE /\ InBounds("evaluate", app, evaluate(app))
         /\ Return("evaluate", NoArg, evaluate(app))

AllClear ==
    /\ InBounds("all_clear", app, all_clear(app))
    /\ Return("all_clear", NoArg, all_clear(app))

\* the commands called on the engine in any order, as the tests call them
Next ==
    \/ HandleDigit
    \/ HandleDecimalPoint
    \/ HandleBackspace
    \/ SetOperator
    \/ Evaluate
    \/ AllClear

Spec == Init /\ [][Next]_vars

\* App::run: one key press handled per iteration, until exit is set
KeyPress ==
    \E key \in Keys :
        /\ ~app.exit
        /\ IF KeyPanics(app, key) THEN Abort("key", key)
           ELSE LET after == handle_key_events(app, key)
                IN  /\ InBounds(KeyCommand(app, key), app, after)
                    /\ Return("key", key, after)

NextKeys == KeyPress

SpecKeys == Init /\ [][NextKeys]_vars

----------------------------------------------------------------------------
(* evaluate applied to whole expressions: the App holds the expression     *)
(* N0 op0 ... Nk as the tokens N0 op0 ... op(k-1) and the input Nk         *)

\* the tokens N1 op1 ... Nn opn
Interleave(numbers, operators) ==
    [i \in 1..(2 * Len(operators)) |->
        IF i % 2 = 1 THEN Number(numbers[(i + 1) \div 2])
        ELSE Operator(operators[i \div 2])]

\* 10 + 10 x 5 / 4 + 45 of the test full_expression_respects_precedence,
\* before the call of evaluate
PrecedenceExample ==
    [App_default EXCEPT
        !.tokens = Interleave(<<<<"1", "0">>, <<"1", "0">>, <<"5">>, <<"4">>>>,
                              <<"Add", "Multiply", "Divide", "Add">>),
        !.input = <<"4", "5">>]

InitEval ==
    /\ \/ \E n \in 1..MaxEvalOperands :
            \E numbers \in [1..n -> EvalOperands],
               operators \in [1..(n - 1) -> Operators] :
                app = [App_default EXCEPT !.tokens = Interleave(numbers, operators),
                                          !.input = numbers[n]]
       \/ app = PrecedenceExample
    /\ prev = App_default
    /\ last = [cmd |-> "default", arg |-> NoArg]
    /\ panicked = FALSE
    /\ frame = NoFrame

EvaluateExpression ==
    /\ last.cmd = "default"
    /\ IF EvaluatePanics(app) THEN Abort("evaluate", NoArg)
       ELSE Return("evaluate", NoArg, evaluate(app))

NextEval == EvaluateExpression

SpecEval == InitEval /\ [][NextEval]_vars

\* the engine commands called in any order on such an expression and on
\* its result
NextResult ==
    \/ EvaluateExpression
    \/ HandleDigit
    \/ HandleDecimalPoint
    \/ HandleBackspace
    \/ SetOperator
    \/ Evaluate
    \/ AllClear

SpecResult == InitEval /\ [][NextResult]_vars

----------------------------------------------------------------------------
(* evaluate_tokens followed step by step on the tokens of the App          *)

\* the call: the for loop over the tokens
EnterReduction ==
    /\ ~panicked
    /\ frame.pc = "none"
    /\ frame' = EnterFrame(app.tokens)
    /\ UNCHANGED <<app, prev, last, panicked>>

\* the test of the while loop and, if it holds, one pass through the body
WhileIteration ==
    /\ ~panicked
    /\ frame.pc = "while"
    /\ frame' = IF frame.idx < Len(frame.operators)
                THEN HighPrecedenceStep(frame)
                ELSE [frame EXCEPT !.pc = "fold"]
    /\ panicked' = (frame'.pc = "panicked")
    /\ UNCHANGED <<app, prev, last>>

\* the fold over the operators that are left, and the return
FoldReturn ==
    /\ ~panicked
    /\ frame.pc = "fold"
    /\ frame' = FoldFrame(frame)
    /\ UNCHANGED <<app, prev, last, panicked>>

NextReduce ==
    \/ EnterReduction
    \/ WhileIteration
    \/ FoldReturn

\* most tokens of a sequence handed to evaluate_tokens as it is
MaxTokens == 3

\* the tokens of those sequences; "." is a text that is no number
AnyTokens ==
    {Number(<<"0">>), Number(<<"4">>), Number(<<".">>)}
        \cup {Operator(op) : op \in Operators}

\* evaluate_tokens on any sequence of tokens
InitTokens ==
    /\ \E n \in 0..MaxTokens :
          \E tokens \in [1..n -> AnyTokens] :
              app = [App_default EXCEPT !.tokens = tokens]
    /\ prev = App_default
    /\ last = [cmd |-> "default", arg |-> NoArg]
    /\ panicked = FALSE
    /\ frame = NoFrame

SpecTokens == InitTokens /\ [][NextReduce]_vars

\* evaluate_tokens as evaluate calls it: input is committed and the tokens
\* N0 op0 ... Nk are a complete expression
InitReduce ==
    /\ \E n \in 1..MaxEvalOperands :
          \E numbers \in [1..n -> EvalOperands],
             operators \in [1..(n - 1) -> Operators] :
              app = [App_default EXCEPT
                        !.tokens = Append(Interleave(numbers, operators),
                                          Number(numbers[n]))]
    /\ prev = App_default
    /\ last = [cmd |-> "default", arg |-> NoArg]
    /\ panicked = FALSE
    /\ frame = NoFrame

SpecReduce == InitReduce /\ [][NextReduce]_vars

\* the steps give what evaluate_tokens gives
StepsAgree ==
    /\ frame.pc = "returned" => frame.result = evaluate_tokens(app.tokens)
    /\ frame.pc = "panicked" => evaluate_tokens(app.tokens) = Panic


----------------------------------------------------------------------------
(* Properties *)

\* the four fields of the engine
EngineState(a) == <<a.input, a.tokens, a.just_evaluated, a.error_message>>

HasError(a) == a.error_message # None

EngineCommandsButClear ==
    {"handle_digit", "handle_decimal_point", "handle_backspace",
     "set_operator", "evaluate"}

\* C1: while error is set, handle_digit, handle_decimal_point,
\* handle_backspace, set_operator and evaluate, called on the engine, leave
\* input, tokens, just_evaluated and error_message unchanged.
C1_ErrorLockoutAtEngine ==
    (HasError(prev) /\ last.cmd \in EngineCommandsButClear)
        => EngineState(app) = EngineState(prev)

\* C2: in every state reached by key presses, if error is set then input
\* is empty, tokens is empty and just_evaluated is false.
C2_ErrorStateIsEmpty ==
    HasError(app)
        => /\ app.input = <<>>
           /\ app.tokens = <<>>
           /\ app.just_evaluated = FALSE

\* C2 witness: a digit key was pressed while the error was set
C2_Witness ==
    /\ HasError(prev)
    /\ HasError(app)
    /\ last.cmd = "key"
    /\ last.arg \in Digits

\* a Number at every odd place, an Operator at every even place
Alternates(tokens) ==
    \A i \in 1..Len(tokens) :
        IF i % 2 = 1 THEN IsNumber(tokens[i]) ELSE IsOperator(tokens[i])

\* C3: in every state reached by engine commands, tokens alternates
\* Number, Operator, Number, ...: no leading Operator, no two consecutive
\* Operators, no two consecutive Numbers.
C3_TokensAlternate ==
    /\ Alternates(app.tokens)
    /\ Len(app.tokens) > 0 => IsNumber(app.tokens[1])
    /\ \A i \in 1..(Len(app.tokens) - 1) :
          /\ ~(IsOperator(app.tokens[i]) /\ IsOperator(app.tokens[i + 1]))
          /\ ~(IsNumber(app.tokens[i]) /\ IsNumber(app.tokens[i + 1]))

\* C3 witness: an operator was pressed on a trailing operator, and a result
\* was committed as the first operand
C3_Witness ==
    /\ last.cmd = "set_operator"
    /\ Len(app.tokens) = 2
    /\ \/ /\ Len(prev.tokens) = 2
          /\ prev.tokens[2] # app.tokens[2]
       \/ prev.just_evaluated

\* C4: all_clear yields the initial state from every reachable state, and
\* all_clear applied again changes nothing.
C4_AllClearResets ==
    /\ EngineState(all_clear(app)) = EngineState(App_default)
    /\ all_clear(all_clear(app)) = all_clear(app)
    /\ last.cmd = "all_clear"
          => /\ EngineState(app) = EngineState(App_default)
             /\ all_clear(app) = app

\* C4 witness: all_clear was called while the error was set
C4_Witness ==
    /\ last.cmd = "all_clear"
    /\ HasError(prev)
    /\ EngineState(app) = EngineState(App_default)


----------------------------------------------------------------------------
(* The value of an expression by the grammar                               *)
(*    expression ::= expression (+|-) term | term                          *)
(*    term       ::= term (x|/) number | number                            *)

\* the operand texts N0 ... Nk and the operators op0 ... op(k-1) of the
\* expression an App holds as tokens followed by input
OperandTexts(a) ==
    [i \in 1..(Len(a.tokens) \div 2 + 1) |->
        IF 2 * i - 1 <= Len(a.tokens) THEN a.tokens[2 * i - 1].text ELSE a.input]

OperatorsOf(a) == [i \in 1..(Len(a.tokens) \div 2) |-> a.tokens[2 * i].op]

\* the App holds a complete expression: tokens N0 op0 ... op(k-1), input Nk
IsExpression(a) ==
    /\ Len(a.input) > 0
    /\ ParseOk(a.input)
    /\ Len(a.tokens) % 2 = 0
    /\ Alternates(a.tokens)
    /\ \A i \in 1..Len(a.tokens) : IsNumber(a.tokens[i]) => ParseOk(a.tokens[i].text)

IsZeroText(text) == ParseValue(text).num = 0

\* some Divide is immediately followed by a zero operand
HasZeroDivisor(a) ==
    \E i \in 1..Len(OperatorsOf(a)) :
        OperatorsOf(a)[i] = "Divide" /\ IsZeroText(OperandTexts(a)[i + 1])

Arith(lhs, rhs, operator) ==
    CASE operator = "Add"      -> FAdd(lhs, rhs)
      [] operator = "Subtract" -> FSub(lhs, rhs)
      [] operator = "Multiply" -> FMul(lhs, rhs)
      [] operator = "Divide"   -> FDiv(lhs, rhs)

\* the value of a term: operators are all Multiply or Divide
RECURSIVE TermValue(_, _)
TermValue(values, operators) ==
    LET k == Len(operators)
    IN  IF k = 0 THEN values[1]
        ELSE Arith(TermValue(SubSeq(values, 1, k), SubSeq(operators, 1, k - 1)),
                   values[k + 1], operators[k])

\* the value of an expression: split at the last Add or Subtract
RECURSIVE ExpressionValue(_, _)
ExpressionValue(values, operators) ==
    LET k    == Len(operators)
        low  == {i \in 1..k : operators[i] \in {"Add", "Subtract"}}
    IN  IF low = {} THEN TermValue(values, operators)
        ELSE LET j == CHOOSE i \in low : \A h \in low : h <= i
             IN  Arith(ExpressionValue(SubSeq(values, 1, j), SubSeq(operators, 1, j - 1)),
                       TermValue(SubSeq(values, j + 1, k + 1), SubSeq(operators, j + 1, k)),
                       operators[j])

ValueOf(a) ==
    ExpressionValue([i \in 1..Len(OperandTexts(a)) |-> ParseValue(OperandTexts(a)[i])],
                    OperatorsOf(a))

\* C5: evaluate on a complete expression without a zero divisor sets input
\* to the formatted value of the expression, with Multiply and Divide
\* binding tighter than Add and Subtract and each level applied left to
\* right, empties tokens and sets just_evaluated; 10 + 10 x 5 / 4 + 45
\* gives 67.5.
C5_EvaluateByPrecedence ==
    /\ (last.cmd = "evaluate" /\ IsExpression(prev) /\ ~HasZeroDivisor(prev))
          => /\ app.input = format_number(ValueOf(prev))
             /\ app.tokens = <<>>
             /\ app.just_evaluated = TRUE
             /\ app.error_message = None
             /\ ~panicked
    /\ (last.cmd = "evaluate" /\ prev = PrecedenceExample)
          => app.input = <<"6", "7", ".", "5">>

\* C5 witness: the example of the test was evaluated to 67.5
C5_Witness ==
    /\ last.cmd = "evaluate"
    /\ prev = PrecedenceExample
    /\ app.input = <<"6", "7", ".", "5">>
    /\ app.tokens = <<>>
    /\ app.just_evaluated

\* C6: evaluate on a complete expression in which some Divide is followed
\* by a zero operand ends in the error state: error_message is "Error
\* Cannot divide by zero", input and tokens are empty, just_evaluated is
\* false.
C6_DivideByZeroAnywhere ==
    (last.cmd = "evaluate" /\ IsExpression(prev) /\ HasZeroDivisor(prev))
        => /\ app.error_message = "Error Cannot divide by zero"
           /\ app.input = <<>>
           /\ app.tokens = <<>>
           /\ app.just_evaluated = FALSE
           /\ ~panicked

\* C6 witness: the division by zero is the last operation of an expression
\* that starts with an addition and a multiplication
C6_Witness ==
    /\ last.cmd = "evaluate"
    /\ IsExpression(prev)
    /\ Len(prev.tokens) = 6
    /\ prev.tokens[2].op = "Add"
    /\ prev.tokens[4].op = "Multiply"
    /\ prev.tokens[6].op = "Divide"
    /\ IsZeroText(prev.input)
    /\ ~IsZeroText(prev.tokens[5].text)
    /\ app.error_message = "Error Cannot divide by zero"


\* evaluate reaches the reduction and the reduction returns a value
EvaluateSucceeds(a) ==
    /\ ReachesReduction(a)
    /\ evaluate_tokens(try_commit_input(a).app.tokens).kind = "Ok"

\* C7: after a successful evaluate just_evaluated is true, and handle_digit
\* in a state with just_evaluated makes input the one-character text of the
\* digit, clears just_evaluated and leaves tokens empty.
C7_DigitAfterEvaluate ==
    /\ (last.cmd = "evaluate" /\ EvaluateSucceeds(prev))
          => /\ app.just_evaluated = TRUE
             /\ app.tokens = <<>>
    /\ (last.cmd = "handle_digit" /\ prev.just_evaluated)
          => /\ app.input = <<last.arg>>
             /\ app.just_evaluated = FALSE
             /\ app.tokens = <<>>

\* C7 witness: a digit was entered on a result of two characters
C7_Witness ==
    /\ last.cmd = "handle_digit"
    /\ prev.just_evaluated
    /\ Len(prev.input) = 2
    /\ app.input = <<last.arg>>

\* C8: handle_backspace changes nothing when just_evaluated is true or
\* input is empty; otherwise it removes the last character of input and
\* leaves tokens, just_evaluated and error_message unchanged.
C8_BackspaceFrame ==
    last.cmd = "handle_backspace"
        => IF prev.just_evaluated \/ prev.input = <<>>
           THEN app = prev
           ELSE /\ app.input = SubSeq(prev.input, 1, Len(prev.input) - 1)
                /\ app.tokens = prev.tokens
                /\ app.just_evaluated = prev.just_evaluated
                /\ app.error_message = prev.error_message
                /\ app.exit = prev.exit

\* C8 witness: the last of two typed characters was removed while an
\* operand and an operator were committed
C8_Witness ==
    /\ last.cmd = "handle_backspace"
    /\ ~prev.just_evaluated
    /\ Len(prev.input) = 2
    /\ Len(app.input) = 1
    /\ Len(prev.tokens) = 2

EndsWithOperator(tokens) == Len(tokens) > 0 /\ IsOperator(tokens[Len(tokens)])

\* C9: set_operator with input empty and a trailing Operator replaces that
\* operator: the length of tokens and every earlier token are unchanged;
\* after set_operator a non-empty tokens ends with the single operator that
\* was pressed last.
C9_OperatorReplaced ==
    /\ (last.cmd = "set_operator" /\ prev.input = <<>> /\ EndsWithOperator(prev.tokens))
          => /\ Len(app.tokens) = Len(prev.tokens)
             /\ \A i \in 1..(Len(prev.tokens) - 1) : app.tokens[i] = prev.tokens[i]
             /\ app.tokens[Len(app.tokens)] = Operator(last.arg)
             /\ app.input = <<>>
    /\ (last.cmd = "set_operator" /\ Len(app.tokens) > 0)
          => /\ app.tokens[Len(app.tokens)] = Operator(last.arg)
             /\ Len(app.tokens) > 1
             /\ IsNumber(app.tokens[Len(app.tokens) - 1])

\* C9 witness: Add was pressed right after Subtract
C9_Witness ==
    /\ last.cmd = "set_operator"
    /\ last.arg = "Add"
    /\ prev.input = <<>>
    /\ Len(prev.tokens) = 2
    /\ prev.tokens[2] = Operator("Subtract")
    /\ app.tokens = <<prev.tokens[1], Operator("Add")>>

\* C10: evaluate with input empty and tokens empty or ending with an
\* Operator changes nothing and raises no error.
C10_EvaluateIncompleteNoOp ==
    (last.cmd = "evaluate" /\ prev.input = <<>>
        /\ (prev.tokens = <<>> \/ EndsWithOperator(prev.tokens)))
        => /\ app = prev
           /\ ~panicked

\* C10 witness: evaluate was called on a trailing Multiply
C10_Witness ==
    /\ last.cmd = "evaluate"
    /\ prev.input = <<>>
    /\ Len(prev.tokens) = 2
    /\ prev.tokens[2] = Operator("Multiply")
    /\ prev.error_message = None
    /\ app = prev


\* C11: in every state reached by engine commands, input holds at most one
\* '.', also when it holds the formatted result of an evaluation.
C11_AtMostOneDecimalPoint == CountChar(app.input, ".") <= 1

\* C11 witness: the decimal point was pressed on a result that holds a '.'
C11_Witness ==
    /\ last.cmd = "handle_decimal_point"
    /\ prev.just_evaluated
    /\ Contains(prev.input, ".")
    /\ app.input = <<"0", ".">>


\* C12: a key pressed while error is set leaves the whole state unchanged,
\* except 'a' and 'A', which perform all_clear, and 'q', which sets exit.
C12_ErrorLockoutAtKeys ==
    (last.cmd = "key" /\ HasError(prev))
        => CASE last.arg \in {"a", "A"} ->
                    /\ app = all_clear(prev)
                    /\ EngineState(app) = EngineState(App_default)
             [] last.arg = "q" -> app = [prev EXCEPT !.exit = TRUE]
             [] OTHER -> app = prev

\* C12 witness: a key that is bound to a command other than all_clear was
\* pressed while the error was set
C12_Witness ==
    /\ last.cmd = "key"
    /\ HasError(prev)
    /\ last.arg \in {"Enter", "=", ".", "Backspace"} \cup OperatorKeys
    /\ app = prev

\* C13: from every reachable state with error set the clear-all key leads
\* to the initial state; the step that sets the error sets neither exit nor
\* ends the process, and exit is set by no key but 'q'.
C13_ErrorsRecoverable ==
    /\ HasError(app)
          => /\ handle_key_events(app, "a") = [App_default EXCEPT !.exit = app.exit]
             /\ handle_key_events(app, "A") = [App_default EXCEPT !.exit = app.exit]
    /\ (last.cmd = "key" /\ HasError(prev) /\ last.arg \in {"a", "A"})
          => app = App_default
    /\ (HasError(app) /\ ~HasError(prev)) => ~app.exit
    /\ app.exit => (last.cmd = "key" /\ last.arg = "q")
    /\ ~panicked

\* C13 witness: the error of a division by zero was cleared by the key 'a'
C13_Witness ==
    /\ last.cmd = "key"
    /\ last.arg = "a"
    /\ prev.error_message = "Error Cannot divide by zero"
    /\ app = App_default

\* C14: in every state reached by key presses with just_evaluated false, a
\* '0' in first place of input is the whole input or is followed by '.'.
C14_NoLeadingZero ==
    (~app.just_evaluated /\ Len(app.input) >= 2 /\ app.input[1] = "0")
        => app.input[2] = "."

\* C14 witness: a digit was pressed on the input "0" of a later operand
C14_Witness ==
    /\ last.cmd = "key"
    /\ last.arg \in Digits
    /\ prev.input = <<"0">>
    /\ prev.tokens # <<>>
    /\ app.input = <<last.arg>>


\* C15: evaluate_tokens applied to any sequence of tokens returns a value
\* or a failure and never indexes its values or operators out of range.
C15_ReductionNeverCrashes ==
    /\ ~panicked
    /\ frame.pc # "panicked"
    /\ frame.pc = "returned" => frame.result.kind \in {"Ok", "Err"}


\* the messages of set_error other than that of a division by zero
OtherMessages ==
    {"Error invalid number", "Error invalid number in expression",
     "Error invalid expression", "Error incomplete expression"}

\* C17: under key presses the commit of input never fails: input is empty
\* or parses as a number, every Number token parses, and the only error
\* message that is ever set is "Error Cannot divide by zero".
C17_CommitNeverFails ==
    /\ Len(app.input) > 0 => ParseOk(app.input)
    /\ try_commit_input(app).ok
    /\ \A i \in 1..Len(app.tokens) :
          IsNumber(app.tokens[i]) => ParseOk(app.tokens[i].text)
    /\ app.error_message \in {None, "Error Cannot divide by zero"}
    /\ app.error_message \notin OtherMessages
    /\ ~panicked

\* C17 witness: an operator key committed a negative result
C17_Witness ==
    /\ last.cmd = "key"
    /\ last.arg \in OperatorKeys
    /\ prev.just_evaluated
    /\ prev.input[1] = "-"
    /\ app.tokens = <<Number(prev.input), Operator(KeyOperator(last.arg))>>
    /\ app.input = <<>>
    /\ ~HasError(app)

\* C18: in every state reached by key presses, just_evaluated implies
\* that tokens is empty, input is not empty and no error is set.
C18_JustEvaluatedShape ==
    app.just_evaluated
        => /\ app.tokens = <<>>
           /\ app.input # <<>>
           /\ ~HasError(app)

\* C18 witness: the result of an expression of two operators was left in
\* place by a backspace
C18_Witness ==
    /\ last.cmd = "key"
    /\ last.arg = "Backspace"
    /\ prev.just_evaluated
    /\ app.just_evaluated
    /\ app.input = prev.input
    /\ Len(app.input) = 2

\* C19: in every reachable state tokens is empty or has even length and
\* ends with an Operator: between commands no Number is the last token.
C19_TokensEndWithOperator ==
    \/ app.tokens = <<>>
    \/ /\ Len(app.tokens) % 2 = 0
       /\ IsOperator(app.tokens[Len(app.tokens)])

\* C19 witness: set_operator committed the second operand and pushed the
\* second operator
C19_Witness ==
    /\ last.cmd = "set_operator"
    /\ prev.input # <<>>
    /\ Len(prev.tokens) = 2
    /\ Len(app.tokens) = 4
    /\ IsNumber(app.tokens[3])
    /\ app.tokens[4] = Operator(last.arg)

----------------------------------------------------------------------------
(* The reduction as one scan from left to right that builds a new          *)
(* sequence of values and operators, followed by the fold of Add and       *)
(* Subtract                                                                *)

\* the scan from operator i on: Multiply and Divide are applied to the
\* last value of the new sequence, Add and Subtract are copied with their
\* right operand
RECURSIVE ScanReduce(_, _, _, _, _)
ScanReduce(values, operators, i, outValues, outOperators) ==
    IF i > Len(operators)
    THEN [kind |-> "Ok", msg |-> None, values |-> outValues, operators |-> outOperators]
    ELSE IF operators[i] \in {"Multiply", "Divide"}
    THEN LET r == apply_operator(outValues[Len(outValues)], values[i + 1], operators[i])
         IN  IF r.kind = "Err"
             THEN [kind |-> "Err", msg |-> r.msg,
                   values |-> outValues, operators |-> outOperators]
             ELSE ScanReduce(values, operators, i + 1,
                             [outValues EXCEPT ![Len(outValues)] = r.val],
                             outOperators)
    ELSE ScanReduce(values, operators, i + 1,
                    Append(outValues, values[i + 1]),
                    Append(outOperators, operators[i]))

\* the fold of the new sequence from operator i on
RECURSIVE ScanFold(_, _, _, _)
ScanFold(acc, values, operators, i) ==
    IF i > Len(operators) THEN Ok(acc)
    ELSE LET r == apply_operator(acc, values[i + 1], operators[i])
         IN  IF r.kind = "Err" THEN r
             ELSE ScanFold(r.val, values, operators, i + 1)

\* the outcome of the scan on the alternating tokens N0 op0 ... Nk
ScanEvaluate(tokens) ==
    LET values    == [i \in 1..((Len(tokens) + 1) \div 2) |->
                         ParseValue(tokens[2 * i - 1].text)]
        operators == [i \in 1..(Len(tokens) \div 2) |-> tokens[2 * i].op]
        s         == ScanReduce(values, operators, 1, <<values[1]>>, <<>>)
    IN  IF s.kind = "Err" THEN Err(s.msg)
        ELSE ScanFold(s.values[1], s.values, s.operators, 1)

\* C16: on every alternating sequence N0 op0 ... Nk the reduction by
\* removal in place over values and operators followed by the fold gives
\* the outcome, value or failure, of the single scan from left to right
\* followed by the fold.
C16_ReductionIsScan ==
    /\ frame.pc = "returned"
          => /\ frame.result = ScanEvaluate(app.tokens)
             /\ evaluate_tokens(app.tokens) = ScanEvaluate(app.tokens)
    /\ ~panicked

\* C16 witness: the reduction returned the value of N0 - N1 / N2 x N3
C16_Witness ==
    /\ frame.pc = "returned"
    /\ frame.result.kind = "Ok"
    /\ Len(app.tokens) = 7
    /\ app.tokens[2].op = "Subtract"
    /\ app.tokens[4].op = "Divide"
    /\ app.tokens[6].op = "Multiply"
    /\ frame.result = ScanEvaluate(app.tokens)

\* the number of operators of the expression that is reduced
OperatorCount == Len(app.tokens) \div 2

\* C20: on every expression of k operators that evaluate hands to the
\* reduction the while loop makes at most k passes, each pass advancing idx
\* or removing one operator; values is one longer than operators at every
\* test of the loop, so that values[idx + 1] is within bounds.
C20_HighPrecedencePassBounded ==
    /\ ~panicked
    /\ frame.iterations <= OperatorCount
    /\ frame.pc \in {"while", "fold"}
          => Len(frame.values) = Len(frame.operators) + 1
    /\ frame.pc = "while"
          => /\ frame.iterations + (Len(frame.operators) - frame.idx) = OperatorCount
             /\ frame.idx < Len(frame.operators) => frame.idx + 1 < Len(frame.values)
    /\ frame.pc = "fold" => frame.iterations = OperatorCount

\* C20 witness: the loop has ended after three passes, two of which
\* removed an operator
C20_Witness ==
    /\ frame.pc = "fold"
    /\ OperatorCount = 3
    /\ frame.iterations = 3
    /\ Len(frame.operators) = 1
    /\ frame.idx = 1

=============================================================================
